---- MODULE Spec2Model ----
(***************************************************************************)
(* Walk-forward backtesting engine (backend/walkforward_engine.py) and its *)
(* predictive extension (backend/walkforward_engine_predictive.py).        *)
(*                                                                         *)
(* Calendar: dates are the integers 1..MaxDate.  A calendar month has      *)
(* MonthDays days and its month-end is the multiple of MonthDays closing   *)
(* it; a week has WeekDays days; a quarter is three months.                *)
(* Weights are integers in units of 1/WUnit (0.05%), money is an           *)
(* integer, a daily return is an integer in units of 1/RetScale; a         *)
(* floating-point quotient of the code is the floor of the exact quotient. *)
(* The external libraries (indicator computation, clustering, regression,  *)
(* the convex solver) are nondeterministic choices over the results they   *)
(* can hand back: a value, an empty table, or a raised exception.          *)
(***************************************************************************)
EXTENDS Integers, Sequences, FiniteSets, TLC

\* ---------------------------------------------------------------- bounds
\* The calendar is scaled down: MonthDays calendar days and RowsPerMonth
\* trading rows per month (the code counts 21 rows per month of horizon).
MaxDate == 16
MonthDays == 2
WeekDays == 1
NumTickers == 5
MaxHorizon == 2
RowsPerMonth == 1
InitialCapital == 10000

\* ------------------------------------------------------ program constants
BpsDenominator == 10000
MinTrainDates == 6
MinSamples == 30
MinAssets == 5
CoverageNum == 7
CoverageDen == 10
CostBps == 15
EnsembleHorizon == 3
RiskFreeDaily == 2                \* rf_daily of risk_free_rate 0.05, in units of 1/RetScale

\* One whole weight (1.0) and one whole return (100%) in model units.
WUnit == 2 * 10 ^ 3
RetScale == 10 ^ 4

Tickers == 1..NumTickers
Calendar == 1..MaxDate
MaxMonths == MaxDate \div MonthDays

\* clean_weights(cutoff=0.001) and the 0.001 filter of the predictive optimiser;
\* the 0.0001 cutoff and filter of optimize_portfolio is below one weight unit.
PredictiveCutoff == WUnit \div 1000
BaseCutoff == WUnit \div 10000

VARIABLES
    engine,                  \* "base" (WalkForwardEngine) or "predictive"
    dates,                   \* self.dates: the trading dates of the panel
    list_from,               \* first date on which each ticker has a row
                             \* (after the last date: the ticker has none)
    prices,                  \* "moving", or "flat": every price the same on every date
    config,                  \* self.config and the predictive constructor arguments
    pc,                      \* position of run()
    rebalance_dates,         \* the schedule built by generate_rebalance_dates
    i,                       \* loop index of run(), 1-based
    current_capital,
    current_weights,
    total_transaction_costs,
    equity_curve,            \* list of [date, value]
    rebalance_records,       \* list of rebalance records
    ic_history,              \* self.ic_history
    alpha_model,             \* self.alpha_model: number of the instance, 0 = None
    used,                    \* dates of the rows the last optimize_at_date handed on
    opt_calls,               \* number of optimize_at_date calls made by run()
    audit,                   \* per record: schedule index, capital carried in,
                             \* weights replaced, span of its points in the curve
    skipped,                 \* schedule positions run() skipped
    last_opt,                \* what the last optimize_at_date call did
    oracle,                  \* 0: the libraries may return anything they can;
                             \* k > 0: the k-th way of returning the same result
                             \* for the same input (seeded models, random_state=42)
    run_no,                  \* number of the run() call on this engine object
    first_run,               \* equity curve and records of the first run() call
    endpoint,                \* the HTTP handler that received the request, "" when
                             \* the engine was constructed directly
    fetched,                 \* fetch_stock_data was called for the request
    args,                    \* arguments of a function called on its own
    ret,                     \* what that call returned
    ensemble,                \* an EnsembleAlphaModel used on its own
    results                  \* return value of run(), or the raised error

vars == <<engine, dates, list_from, prices, config, pc, rebalance_dates, i,
          current_capital, current_weights, total_transaction_costs,
          equity_curve, rebalance_records, ic_history, alpha_model, used,
          opt_calls, audit, skipped, last_opt, oracle, run_no, first_run,
          endpoint, fetched, args, ret, ensemble, results>>

panel == <<engine, dates, list_from, prices, config>>

\* What the caller of run() holds.
caller == <<oracle, run_no, first_run, endpoint, fetched, args, ret, ensemble>>

\* ------------------------------------------------------------- helpers
Min(S) == CHOOSE x \in S : \A y \in S : x <= y
Max(S) == CHOOSE x \in S : \A y \in S : x >= y
Abs(x) == IF x < 0 THEN -x ELSE x

RECURSIVE SumOver(_, _)
SumOver(f, S) ==
    IF S = {} THEN 0
    ELSE LET x == CHOOSE y \in S : TRUE IN f[x] + SumOver(f, S \ {x})

RECURSIVE SortedSeq(_)
SortedSeq(S) ==
    IF S = {} THEN <<>>
    ELSE LET m == Min(S) IN <<m>> \o SortedSeq(S \ {m})

Range(s) == {s[k] : k \in 1..Len(s)}

\* Position of x in the strictly increasing sequence s, 0 when absent.
IndexOf(s, x) ==
    IF \E k \in 1..Len(s) : s[k] = x
    THEN CHOOSE k \in 1..Len(s) : s[k] = x
    ELSE 0

\* ------------------------------------------------------------ the panel
\* stock_data has a row (d, t) when d is a trading date and t is listed.
HasRow(d, t) == d \in dates /\ d >= list_from[t]

\* adj close of row (d, t).
Price(d, t) == IF prices = "flat" THEN 100 ELSE 100 + ((d * (t + 1)) % 7)

start_date == Min(dates)
end_date == Max(dates)

\* relativedelta(months=n) / pd.DateOffset(months=n)
Months(n) == n * MonthDays

\* Period of a pandas frequency alias: 'D', 'W', 'M', 'Q'.
FreqDays(freq) ==
    CASE freq = "D" -> 1
      [] freq = "W" -> WeekDays
      [] freq = "M" -> MonthDays
      [] freq = "Q" -> 3 * MonthDays

\* pd.date_range(start, end, freq): the period ends within [start, end].
DateRange(start, end, freq) ==
    {d \in Calendar : d >= start /\ d <= end /\ d % FreqDays(freq) = 0}

\* ------------------------------------------- WalkForwardEngine: schedule
\* First trading date on or after target (self.dates[self.dates >= target][0]).
SnapForward(target) == Min({d \in dates : d >= target})

\* One aligned date per calendar target that has a trading date on or after it,
\* in target order; nothing is removed afterwards.
AlignedDates(targets) ==
    LET ts == SortedSeq(targets)
        ok == SelectSeq(ts, LAMBDA x : \E d \in dates : d >= x)
    IN [k \in 1..Len(ok) |-> SnapForward(ok[k])]

\* The first target with the lookback left out.
FirstRebalance_NoLookback == start_date

\* first_rebalance = self.start_date + relativedelta(months=lookback_months)
FirstRebalance == start_date + Months(config.lookback_months)

generate_rebalance_dates ==
    AlignedDates(DateRange(FirstRebalance, end_date, config.rebalance_freq))

\* ---------------------------------------------------- lookback windows
\* Dates of the rows of stock_data with lo <= date < hi.
WindowUpTo(lo, hi) == {d \in dates : d >= lo /\ d < hi /\ \E t \in Tickers : HasRow(d, t)}

\* WalkForwardEngine.get_lookback_data
get_lookback_data(rebalance_date) ==
    WindowUpTo(rebalance_date - Months(config.lookback_months), rebalance_date)

\* The window with the rebalance date itself included.
predictive_lookback_data_inclusive(rebalance_date, lookback_months) ==
    {d \in dates : d >= rebalance_date - Months(lookback_months) /\ d <= rebalance_date}

\* PredictiveWalkForwardEngine._get_lookback_data
predictive_lookback_data(rebalance_date, lookback_months) ==
    WindowUpTo(rebalance_date - Months(lookback_months), rebalance_date)

\* Columns of window['adj close'].unstack('ticker'): tickers with a row in it.
Columns(window) == {t \in Tickers : \E d \in window : HasRow(d, t)}

\* price_df.count(): rows of the window in which the ticker has a price.
CountRows(window, t) == Cardinality({d \in window : HasRow(d, t)})

\* ------------------------------------------------------------ optimiser
\* dict.get(ticker, 0.0)
Get(w, t) == IF t \in DOMAIN w THEN w[t] ELSE 0

SumWeights(w) == SumOver(w, DOMAIN w)

\* pypfopt clean_weights(cutoff): entries with |w| < cutoff become 0; the rest
\* are left as solved (no renormalisation).
clean_weights(w, cutoff) == [t \in DOMAIN w |-> IF Abs(w[t]) < cutoff THEN 0 ELSE w[t]]

\* {k: v for k, v in cleaned_weights.items() if v > threshold}
FilterAbove(w, threshold) ==
    [t \in {x \in DOMAIN w : w[x] > threshold} |-> w[t]]

\* A fully invested vector holding s in a and the rest in b.
TwoAsset(V, a, b, s) ==
    [t \in V |-> IF t = a THEN s ELSE IF t = b THEN WUnit - s ELSE 0]

\* Splits the solver may return: everything in one asset, all but 0.05% in
\* one asset (the other below the 0.1% cutoff), an even split; the even split
\* is also tried on the second and the last asset of the universe.
Splits == {WUnit, WUnit - 1, WUnit \div 2}

\* Vectors EfficientFrontier.max_sharpe can return over universe V: fully
\* invested and within the bounds; the empty set when the bounds are infeasible
\* (the solver raises).
max_sharpe(V, min_weight, max_weight) ==
    LET vs == SortedSeq(V)
        cands ==
            IF Len(vs) = 0 THEN {}
            ELSE IF Len(vs) = 1 THEN {[t \in V |-> WUnit]}
            ELSE {TwoAsset(V, vs[1], vs[2], s) : s \in Splits}
                 \cup (IF Len(vs) >= 3
                       THEN {TwoAsset(V, vs[2], vs[Len(vs)], WUnit \div 2)}
                       ELSE {})
    IN {w \in cands : \A t \in V : min_weight <= w[t] /\ w[t] <= max_weight}

\* optimize_portfolio: weights = entries of clean_weights() above 0.0001.
base_weights(solved) == FilterAbove(clean_weights(solved, BaseCutoff), BaseCutoff)

\* _optimize_with_forecasts: clean_weights(cutoff=0.001), then v > 0.001.
predictive_weights(solved) ==
    FilterAbove(clean_weights(solved, PredictiveCutoff), PredictiveCutoff)

NoUse == [date |-> 0, features |-> {}, labels |-> {}, cov |-> {}, opt |-> {}]

\* What a call that never reached _generate_ml_forecasts knows of the model.
NoML == [why |-> "off", n_dates |-> 0, n_samples |-> 0, fitted |-> FALSE]

\* One result of optimize_at_date: ml is what _generate_ml_forecasts did in
\* the call, valid the valid_tickers of _optimize_with_forecasts ({} when the
\* call never got there).
Outcome(kind, cause, weights, u, fb, ic, model) ==
    [kind |-> kind, cause |-> cause, weights |-> weights, used |-> u,
     forecast_based |-> fb, ic |-> ic, model |-> model, ml |-> NoML, valid |-> {}]

\* WalkForwardEngine.optimize_at_date: the set of results it can produce.
\* Everything after the empty-window test runs inside try/except, so a raised
\* exception is a None result.
base_optimize_at_date(d) ==
    LET lb == get_lookback_data(d)
        u == [date |-> d, features |-> lb, labels |-> {}, cov |-> lb, opt |-> lb]
        solved == max_sharpe(Columns(lb), 0, config.max_weight)
    IN IF lb = {}
       THEN {Outcome("none", "no_data", <<>>, [NoUse EXCEPT !.date = d], FALSE, <<>>, alpha_model)}
       ELSE {Outcome("none", c, <<>>, u, FALSE, <<>>, alpha_model) :
                c \in {"features_empty", "exception"}}
            \cup {Outcome("ok", "", base_weights(w), u, FALSE, <<>>, alpha_model) :
                    w \in solved}

\* ------------------------------------- predictive engine: alpha forecasts
\* Label of the calendar month containing d (resample('M') labels month-ends).
MonthEnd(d) == ((d + MonthDays - 1) \div MonthDays) * MonthDays

\* calculate_features(alpha_data): one row per (month-end label, ticker) with
\* data in that month.
FeatureDates(alpha) == {MonthEnd(d) : d \in alpha}
FeatureTickers(alpha, m) ==
    {t \in Tickers : \E d \in alpha : MonthEnd(d) = m /\ HasRow(d, t)}

\* horizon_months of the model that prepares the training data: the configured
\* forecast_horizon for a single model, the children's default for the ensemble
\* (model_configs carry no 'horizon_months').
HorizonMonths ==
    IF config.use_ensemble THEN EnsembleHorizon ELSE config.forecast_horizon

\* _compute_forward_return on the rows of price_df (a sequence of dates):
\* the two rows the return is the ratio of, or {} when it returns None.
ForwardRows(rows, start) ==
    LET start_idx == IndexOf(rows, start)
        end_idx == start_idx + HorizonMonths * RowsPerMonth
    IN IF start_idx = 0 \/ end_idx > Len(rows) THEN {}
       ELSE {rows[start_idx], rows[end_idx]}

\* pd.date_range(train_start, rebalance_date - 1 month, freq='ME')
train_rebalance_dates(alpha, d) ==
    DateRange(Min(FeatureDates(alpha)), d - Months(1), "M")

\* prepare_training_data: the (date, ticker) samples it keeps. price_rows are
\* the rows of the price frame whose prices the labels are built from.
prepare_training_data(alpha, price_rows, train_dates) ==
    {s \in train_dates \X Tickers :
        /\ s[1] \in FeatureDates(alpha)
        /\ s[2] \in FeatureTickers(alpha, s[1])
        /\ s[2] \in Columns(price_rows)
        /\ ForwardRows(SortedSeq(price_rows), s[1]) # {}}

\* Rows of the price frame that training labels were read from.
LabelRows(price_rows, samples) ==
    UNION {ForwardRows(SortedSeq(price_rows), s[1]) : s \in samples}

\* Values a cross-validated mean IC can take (sign only).
ICValues == {-1, 1}

\* Result of one _generate_ml_forecasts call. why names the line it left by,
\* n_dates and n_samples are len(train_rebalance_dates) and len(X), fitted tells
\* whether alpha_model.train(X, y) completed.
MLResult(kind, why, labels, ic, n_dates, n_samples, fitted) ==
    [kind |-> kind, why |-> why, labels |-> labels, ic |-> ic,
     n_dates |-> n_dates, n_samples |-> n_samples, fitted |-> fitted]

\* The method without its two minimum-size tests: it cross-validates and
\* trains on whatever samples there are.
generate_ml_forecasts_NoMinimum(alpha, d) ==
    LET train_dates == train_rebalance_dates(alpha, d)
        samples == prepare_training_data(alpha, alpha, train_dates)
        labels == LabelRows(alpha, samples)
        nd == Cardinality(train_dates)
        ns == Cardinality(samples)
    IN {MLResult("raise", "cv_raised", labels, <<>>, nd, ns, FALSE)}
       \cup {MLResult("forecast", "predicted", labels, <<[date |-> d, ic |-> v]>>,
                      nd, ns, TRUE) : v \in ICValues}

\* _generate_ml_forecasts: "forecast" (a forecast dict), "none" (returns None),
\* or "raise" (an exception of cross-validation or training leaves the method).
\* The IC entry is appended between cross-validation and the final training.
generate_ml_forecasts(alpha, d) ==
    LET train_dates == train_rebalance_dates(alpha, d)
        samples == prepare_training_data(alpha, alpha, train_dates)
        labels == LabelRows(alpha, samples)
        nd == Cardinality(train_dates)
        ns == Cardinality(samples)
    IN IF nd < MinTrainDates
       THEN {MLResult("none", "few_dates", {}, <<>>, nd, 0, FALSE)}
       ELSE IF ns < MinSamples
       THEN {MLResult("none", "few_samples", labels, <<>>, nd, ns, FALSE)}
       ELSE {MLResult("raise", "cv_raised", labels, <<>>, nd, ns, FALSE)}
            \cup {MLResult("raise", "train_raised", labels,
                           <<[date |-> d, ic |-> v]>>, nd, ns, FALSE) : v \in ICValues}
            \cup {MLResult("forecast", "predicted", labels,
                           <<[date |-> d, ic |-> v]>>, nd, ns, TRUE) : v \in ICValues}
            \cup {MLResult("none", "predict_failed", labels,
                           <<[date |-> d, ic |-> v]>>, nd, ns, TRUE) : v \in ICValues}

\* valid_tickers of _optimize_with_forecasts: at least int(0.7 * rows) prices.
valid_tickers(risk) ==
    LET min_obs == (CoverageNum * Cardinality(risk)) \div CoverageDen
    IN {t \in Columns(risk) : CountRows(risk, t) >= min_obs}

\* _optimize_with_forecasts: None when fewer than 5 tickers are valid or when
\* the solver raises, else the cleaned weights.
optimize_with_forecasts(risk, forecast_based, u, ic, model) ==
    LET valid == valid_tickers(risk)
        solved == max_sharpe(valid, config.min_weight, config.max_weight)
        results_ ==
            IF Cardinality(valid) < MinAssets
            THEN {Outcome("none", "insufficient_universe", <<>>, u, forecast_based, ic, model)}
            ELSE {Outcome("none", "solver_failed", <<>>, u, forecast_based, ic, model)}
                 \cup {Outcome("ok", "", predictive_weights(w), u, forecast_based, ic, model) :
                         w \in solved}
    IN {[o EXCEPT !.valid = valid] : o \in results_}

\* PredictiveWalkForwardEngine.optimize_at_date. Nothing here is inside a
\* try/except: an exception of calculate_features or of model training leaves
\* the method.
predictive_optimize_at_date(d) ==
    LET alpha == predictive_lookback_data(d, config.alpha_lookback_months)
        risk == predictive_lookback_data(d, config.risk_lookback_months)
        u0 == [date |-> d, features |-> alpha, labels |-> {}, cov |-> {}, opt |-> {}]
    IN IF alpha = {} \/ risk = {}
       THEN {Outcome("none", "no_data", <<>>, [NoUse EXCEPT !.date = d], FALSE, <<>>, alpha_model)}
       ELSE {Outcome("raise", "features_raised", <<>>, u0, FALSE, <<>>, alpha_model),
             Outcome("none", "features_empty", <<>>, u0, FALSE, <<>>, alpha_model)}
            \cup
            (IF config.use_predictive
             THEN UNION {
                    LET u1 == [u0 EXCEPT !.labels = ml.labels]
                        u2 == [u1 EXCEPT !.cov = risk, !.opt = risk]
                        info == [why |-> ml.why, n_dates |-> ml.n_dates,
                                 n_samples |-> ml.n_samples, fitted |-> ml.fitted]
                        outcomes ==
                            IF ml.kind = "raise"
                            THEN {Outcome("raise", "training_raised", <<>>, u1, FALSE,
                                          ml.ic, alpha_model + 1)}
                            ELSE optimize_with_forecasts(risk, ml.kind = "forecast", u2,
                                                         ml.ic, alpha_model + 1)
                    IN {[o EXCEPT !.ml = info] : o \in outcomes}
                    : ml \in generate_ml_forecasts(alpha, d)}
             ELSE optimize_with_forecasts(risk, FALSE,
                                          [u0 EXCEPT !.cov = risk, !.opt = risk],
                                          <<>>, alpha_model))

optimize_at_date(d) ==
    IF engine = "base" THEN base_optimize_at_date(d) ELSE predictive_optimize_at_date(d)

\* What the libraries handed back in one optimize_at_date call.
Sig(x) == <<x.kind, x.cause, x.forecast_based, x.ml.why, x.weights, x.ic>>

\* The result the libraries give at date d under oracle k > 0: the same
\* whenever the same rows go in (every stochastic model is built with
\* random_state=42). The oracle fixes, per date, whether the call succeeds,
\* returns None or raises, and whether the solver holds the first asset.
PickAmong(sigs, kinds, n) ==
    LET kind == kinds[(n % Len(kinds)) + 1]
        first == (n \div Len(kinds)) % 2 = 0
        preferred == {sg \in sigs : sg[1] = kind /\ (1 \in DOMAIN sg[5]) = first}
    IN IF preferred # {} THEN CHOOSE sg \in preferred : TRUE
       ELSE CHOOSE sg \in sigs : sg[1] = kind

PickSig(outcomes, n) ==
    PickAmong({Sig(r) : r \in outcomes},
              SelectSeq(<<"ok", "none", "raise">>,
                        LAMBDA k : \E r \in outcomes : r.kind = k),
              n)

PicksOf(outcomes, d) ==
    IF oracle = 0 THEN outcomes
    ELSE {r \in outcomes : Sig(r) = PickSig(outcomes, oracle + d + (d \div 2))}

\* The results optimize_at_date can produce at date d.
Picks(d) == PicksOf(optimize_at_date(d), d)

\* ------------------------------------------------ costs and holding period
\* Turnover that walks the new holdings only, missing what was sold out.
Turnover_NewOnly(old_weights, new_weights) ==
    SumOver([t \in DOMAIN new_weights |-> Abs(new_weights[t] - Get(old_weights, t))],
            DOMAIN new_weights)

\* Turnover of calculate_transaction_costs, in weight units.
Turnover(old_weights, new_weights) ==
    LET all_tickers == DOMAIN old_weights \cup DOMAIN new_weights
        delta == [t \in all_tickers |-> Abs(Get(new_weights, t) - Get(old_weights, t))]
    IN SumOver(delta, all_tickers)

\* cost = (turnover * portfolio_value * cost_bps) / 10000
TransactionCost(turnover, portfolio_value) ==
    (turnover * portfolio_value * config.transaction_cost_bps)
        \div (WUnit * BpsDenominator)

\* Rows of the holding period: start_date <= date <= end_date.
PeriodDates(from, to) ==
    SortedSeq({d \in dates : d >= from /\ d <= to /\ \E t \in Tickers : HasRow(d, t)})

\* Forward-filled price of ticker t at row k of the period, 0 for NaN.
FilledPrice(rows, k, t) ==
    LET seen == {j \in 1..k : HasRow(rows[j], t)}
    IN IF seen = {} THEN 0 ELSE Price(rows[Max(seen)], t)

\* pct_change().fillna(0.0) of ticker t at row k, in units of 1/RetScale.
PctChange(rows, k, t) ==
    IF k = 1 THEN 0
    ELSE LET prev == FilledPrice(rows, k - 1, t)
             cur == FilledPrice(rows, k, t)
         IN IF prev = 0 \/ cur = 0 THEN 0
            ELSE ((cur - prev) * RetScale) \div prev

\* calculate_period_returns: the daily portfolio returns [date, ret], weights
\* renormalised over the held tickers with a column in the period; <<>> for
\* the empty Series.
calculate_period_returns(weights, from, to) ==
    LET rows == PeriodDates(from, to)
        available == DOMAIN weights \cap Columns(Range(rows))
        total_weight == SumOver(weights, available)
    IN IF Len(rows) = 0 \/ available = {} \/ total_weight = 0 THEN <<>>
       ELSE [k \in 1..Len(rows) |->
                [date |-> rows[k],
                 ret |-> SumOver([t \in available |-> weights[t] * PctChange(rows, k, t)],
                                 available) \div total_weight]]

\* (1 + period_returns).cumprod() * current_capital
RECURSIVE CumProd(_, _, _)
CumProd(period_returns, capital, k) ==
    IF k = 0 THEN capital
    ELSE (CumProd(period_returns, capital, k - 1) * (RetScale + period_returns[k].ret))
            \div RetScale

PeriodValues(period_returns, capital) ==
    [k \in 1..Len(period_returns) |->
        [date |-> period_returns[k].date, value |-> CumProd(period_returns, capital, k)]]

\* The period compounded on the capital before the cost has left it.
CapitalAfterCost_NotDeducted(capital, txn_cost) == capital

\* Order of the two steps of run() between optimisation and compounding:
\* the cost leaves the capital first, then the period is compounded on the rest.
CapitalAfterCost(capital, txn_cost) == capital - txn_cost

\* ------------------------------------------------------------- metrics
RECURSIVE RunningMax(_, _)
RunningMax(curve, k) ==
    IF k = 1 THEN curve[1].value
    ELSE LET m == RunningMax(curve, k - 1)
         IN IF curve[k].value > m THEN curve[k].value ELSE m

\* (equity_curve / equity_curve.cummax() - 1).min(), in units of 1/RetScale
MaxDrawdown(curve) ==
    Min({(curve[k].value * RetScale) \div RunningMax(curve, k) - RetScale :
            k \in 1..Len(curve)})

AvgTurnover(records) ==
    IF Len(records) = 0 THEN 0
    ELSE SumOver([k \in 1..Len(records) |-> records[k].turnover], 1..Len(records))
            \div Len(records)

Sign(x) == IF x > 0 THEN 1 ELSE IF x < 0 THEN -1 ELSE 0

\* equity_curve.pct_change().dropna(), in units of 1/RetScale
DailyReturns(curve) ==
    [k \in 1..(Len(curve) - 1) |->
        ((curve[k + 1].value - curve[k].value) * RetScale) \div curve[k].value]

\* daily_returns.std() > 0: the daily returns are not all the same.
HasSpread(rets) == \E j, k \in 1..Len(rets) : rets[j] # rets[k]

\* The Sharpe ratio divided through without the test for a zero deviation.
SharpeSign_NoZeroTest(rets) ==
    Sign(SumOver(rets, 1..Len(rets)) - Len(rets) * RiskFreeDaily)

\* Sign of the annualised Sharpe ratio: 0.0 when the standard deviation is 0,
\* else the sign of daily_returns.mean() - rf_daily.
SharpeSign(rets) ==
    IF ~HasSpread(rets) THEN 0
    ELSE Sign(SumOver(rets, 1..Len(rets)) - Len(rets) * RiskFreeDaily)

\* WalkForwardEngine._empty_metrics
empty_metrics ==
    [initial_capital |-> config.initial_capital,
     final_value |-> config.initial_capital,
     total_return |-> 0,
     annualized_return |-> 0,
     volatility |-> 0,
     sharpe_ratio |-> 0,
     max_drawdown |-> 0,
     n_rebalances |-> 0,
     total_transaction_costs |-> 0,
     transaction_costs_pct |-> 0,
     avg_turnover |-> 0,
     time_series |-> [dates |-> <<>>, portfolio_values |-> <<>>],
     rebalance_history |-> <<>>]

\* WalkForwardEngine._calculate_performance_metrics; daily_returns is empty
\* when the curve has a single point. The three annualised figures are kept
\* by their sign.
calculate_performance_metrics(curve, records, total_txn_costs) ==
    IF Len(curve) < 2 THEN empty_metrics
    ELSE LET total_return == (curve[Len(curve)].value * RetScale)
                                \div config.initial_capital - RetScale
             daily_returns == DailyReturns(curve)
         IN [initial_capital |-> config.initial_capital,
             final_value |-> curve[Len(curve)].value,
             total_return |-> total_return,
             annualized_return |-> Sign(total_return),
             volatility |-> IF HasSpread(daily_returns) THEN 1 ELSE 0,
             sharpe_ratio |-> SharpeSign(daily_returns),
             max_drawdown |-> MaxDrawdown(curve),
             n_rebalances |-> Len(records),
             total_transaction_costs |-> total_txn_costs,
             transaction_costs_pct |-> (total_txn_costs * RetScale)
                                          \div config.initial_capital,
             avg_turnover |-> AvgTurnover(records),
             time_series |-> [dates |-> [k \in 1..Len(curve) |-> curve[k].date],
                              portfolio_values |->
                                  [k \in 1..Len(curve) |-> curve[k].value]],
             rebalance_history |-> records]

\* The part of a result of optimize_at_date that run() does not store.
CallOf(d, r) ==
    [date |-> d, kind |-> r.kind, cause |-> r.cause,
     forecast_based |-> r.forecast_based, ic_added |-> Len(r.ic),
     ml |-> r.ml, valid |-> r.valid, weights |-> r.weights, ic |-> r.ic]

NoCall ==
    [date |-> 0, kind |-> "", cause |-> "", forecast_based |-> FALSE,
     ic_added |-> 0, ml |-> NoML, valid |-> {}, weights |-> <<>>, ic |-> <<>>]

NoResult == [status |-> "running"]
Raised(what) == [status |-> "raised", error |-> what]
\* run() returned the dict value.
Returned(value) == [status |-> "returned", value |-> value]

\* PredictiveWalkForwardEngine.run, lines 116-125: the dict of the base run()
\* with the key 'predictive_diagnostics' added when an IC was recorded.
WithDiagnostics(value, history) ==
    IF config.use_predictive /\ Len(history) > 0
    THEN [k \in DOMAIN value \cup {"predictive_diagnostics"} |->
            IF k = "predictive_diagnostics"
            THEN [ic_history |-> history,
                  forecast_horizon |-> config.forecast_horizon]
            ELSE value[k]]
    ELSE value

\* ------------------------------------------------------------ the state
Lookbacks == {MaxMonths - 1, MaxMonths - 2, MaxMonths - 3}
Freqs == {"W", "M", "Q"}
MaxWeights == {WUnit \div 2, WUnit}
GapChoices == {{}, {MaxDate - 1}, {MaxDate - 2, MaxDate - 1}}
LateChoices == {1, 4, MaxDate \div 2}

\* The engine as constructed: its panel and its configuration.
InitEngine ==
    \E e \in {"base", "predictive"}, lb \in Lookbacks, f \in Freqs,
          mw \in MaxWeights, gap \in GapChoices, late \in LateChoices,
          up \in BOOLEAN, fh \in 1..MaxHorizon, ens \in BOOLEAN, extra \in {0, 1},
          pk \in {"moving", "flat"}, bps \in {0, CostBps}, solo \in BOOLEAN :
        /\ f = "W" => lb >= MaxMonths - 1
        /\ pk = "moving" => bps = CostBps
        /\ pk = "flat" => gap = {} /\ late = 1 /\ extra = 0 /\ fh = 1 /\ ~ens
        /\ solo => gap = {} /\ late = 1 /\ extra = 0 /\ fh = 1 /\ ~ens /\ pk = "moving"
        /\ prices = pk
        /\ e = "base" => ~up /\ extra = 0
        /\ ~up => fh = 1 /\ ~ens
        /\ engine = e
        /\ dates = Calendar \ gap
        /\ list_from = [t \in Tickers |->
                            IF solo /\ t > 1 THEN MaxDate + 1
                            ELSE IF t = NumTickers THEN late ELSE 1]
        /\ config = [lookback_months |-> lb,
                     rebalance_freq |-> f,
                     max_weight |-> mw,
                     min_weight |-> 0,
                     transaction_cost_bps |-> bps,
                     initial_capital |-> InitialCapital,
                     use_predictive |-> up,
                     forecast_horizon |-> fh,
                     use_ensemble |-> ens,
                     model_type |-> "ridge",
                     alpha_lookback_months |-> lb,
                     risk_lookback_months |-> lb + extra]

\* The state before run() has initialised anything.
InitLocals ==
    /\ rebalance_dates = <<>>
    /\ i = 0
    /\ current_capital = 0
    /\ current_weights = <<>>
    /\ total_transaction_costs = 0
    /\ equity_curve = <<>>
    /\ rebalance_records = <<>>
    /\ ic_history = <<>>
    /\ alpha_model = 0
    /\ used = NoUse
    /\ opt_calls = 0
    /\ audit = <<>>
    /\ skipped = {}
    /\ last_opt = NoCall
    /\ results = NoResult

NoFirstRun == [curve |-> <<>>, records |-> <<>>]

\* No function is called on its own.
NoArgs == [fn |-> ""]

\* No ensemble is used on its own.
NoEnsemble == [ensemble_method |-> ""]

Init ==
    /\ InitEngine
    /\ InitLocals
    /\ pc = "init"
    /\ oracle = 0
    /\ run_no = 1
    /\ first_run = NoFirstRun
    /\ endpoint = ""
    /\ fetched = FALSE
    /\ args = NoArgs
    /\ ret = NoArgs
    /\ ensemble = NoEnsemble

\* The start of run() without the test for an empty schedule.
GenerateSchedule_NoCheck ==
    /\ pc = "init"
    /\ rebalance_dates' = generate_rebalance_dates
    /\ pc' = "loop"
    /\ i' = 1
    /\ current_capital' = config.initial_capital
    /\ UNCHANGED <<panel, caller, current_weights, total_transaction_costs, equity_curve,
                   rebalance_records, ic_history, alpha_model, used, opt_calls,
                   audit, skipped, last_opt, results>>

\* run(), lines 253-266: build the schedule, raise when it is empty, else
\* initialise the loop.
GenerateSchedule ==
    /\ pc = "init"
    /\ rebalance_dates' = generate_rebalance_dates
    /\ IF Len(rebalance_dates') = 0
       THEN /\ pc' = "fatal"
            /\ results' = Raised("no_rebalance_dates")
            /\ UNCHANGED <<i, current_capital>>
       ELSE /\ pc' = "loop"
            /\ i' = 1
            /\ current_capital' = config.initial_capital
            /\ UNCHANGED results
    /\ UNCHANGED <<panel, caller, current_weights, total_transaction_costs, equity_curve,
                   rebalance_records, ic_history, alpha_model, used, opt_calls,
                   audit, skipped, last_opt>>

\* A skip that liquidates: the held weights are dropped on a failed date.
RebalanceSkip_DropsWeights ==
    /\ pc = "loop"
    /\ i <= Len(rebalance_dates)
    /\ \E r \in Picks(rebalance_dates[i]) :
        /\ r.kind = "none"
        /\ used' = r.used
        /\ ic_history' = ic_history \o r.ic
        /\ alpha_model' = r.model
        /\ last_opt' = CallOf(rebalance_dates[i], r)
    /\ opt_calls' = opt_calls + 1
    /\ skipped' = skipped \cup {i}
    /\ i' = i + 1
    /\ current_weights' = <<>>
    /\ UNCHANGED <<panel, caller, pc, rebalance_dates, current_capital,
                   total_transaction_costs, equity_curve, rebalance_records,
                   audit, results>>

\* One iteration of the loop of run() whose optimize_at_date returned None:
\* `continue`.
RebalanceSkip ==
    /\ pc = "loop"
    /\ i <= Len(rebalance_dates)
    /\ \E r \in Picks(rebalance_dates[i]) :
        /\ r.kind = "none"
        /\ used' = r.used
        /\ ic_history' = ic_history \o r.ic
        /\ alpha_model' = r.model
        /\ last_opt' = CallOf(rebalance_dates[i], r)
    /\ opt_calls' = opt_calls + 1
    /\ skipped' = skipped \cup {i}
    /\ i' = i + 1
    /\ UNCHANGED <<panel, caller, pc, rebalance_dates, current_capital, current_weights,
                   total_transaction_costs, equity_curve, rebalance_records,
                   audit, results>>

\* One iteration whose optimize_at_date raised: the exception leaves run().
RebalanceRaise ==
    /\ pc = "loop"
    /\ i <= Len(rebalance_dates)
    /\ \E r \in Picks(rebalance_dates[i]) :
        /\ r.kind = "raise"
        /\ used' = r.used
        /\ ic_history' = ic_history \o r.ic
        /\ alpha_model' = r.model
        /\ results' = Raised(r.cause)
        /\ last_opt' = CallOf(rebalance_dates[i], r)
    /\ opt_calls' = opt_calls + 1
    /\ pc' = "fatal"
    /\ UNCHANGED <<panel, caller, rebalance_dates, i, current_capital, current_weights,
                   total_transaction_costs, equity_curve, rebalance_records,
                   audit, skipped>>

\* One iteration whose optimisation succeeded, lines 277-330: cost, holding
\* period, equity points, record, new current weights.
Rebalance ==
    /\ pc = "loop"
    /\ i <= Len(rebalance_dates)
    /\ \E r \in Picks(rebalance_dates[i]) :
        /\ r.kind = "ok"
        /\ LET rebal_date == rebalance_dates[i]
               new_weights == r.weights
               turnover == Turnover(current_weights, new_weights)
               txn_cost == TransactionCost(turnover, current_capital)
               capital == CapitalAfterCost(current_capital, txn_cost)
               next_rebal_date == IF i < Len(rebalance_dates)
                                  THEN rebalance_dates[i + 1] ELSE end_date
               period_returns == calculate_period_returns(new_weights, rebal_date,
                                                          next_rebal_date)
               period_values == PeriodValues(period_returns, capital)
               carried == IF Len(period_values) > 0
                          THEN period_values[Len(period_values)].value
                          ELSE capital
           IN /\ current_capital' = carried
              /\ total_transaction_costs' = total_transaction_costs + txn_cost
              /\ equity_curve' = equity_curve \o period_values
              /\ rebalance_records' = Append(rebalance_records,
                    [date |-> rebal_date,
                     weights |-> new_weights,
                     n_stocks |-> Cardinality(DOMAIN new_weights),
                     turnover |-> turnover,
                     transaction_cost |-> txn_cost,
                     portfolio_value |-> carried,
                     forecast_based |-> r.forecast_based])
              /\ audit' = Append(audit,
                    [index |-> i,
                     capital_in |-> current_capital,
                     old_weights |-> current_weights,
                     curve_from |-> Len(equity_curve) + 1,
                     curve_to |-> Len(equity_curve) + Len(period_values)])
              /\ current_weights' = new_weights
        /\ used' = r.used
        /\ ic_history' = ic_history \o r.ic
        /\ alpha_model' = r.model
        /\ last_opt' = CallOf(rebalance_dates[i], r)
    /\ opt_calls' = opt_calls + 1
    /\ i' = i + 1
    /\ UNCHANGED <<panel, caller, pc, rebalance_dates, skipped, results>>

\* End of run(), lines 332-356, and of the predictive run(), lines 113-127:
\* set_index('date') raises on an empty equity curve, else the metrics are
\* returned, with the diagnostics when a predictive run recorded an IC.
Finalize ==
    /\ pc = "loop"
    /\ i > Len(rebalance_dates)
    /\ IF Len(equity_curve) = 0
       THEN /\ pc' = "fatal"
            /\ results' = Raised("empty_equity_curve")
       ELSE /\ pc' = "done"
            /\ LET value == calculate_performance_metrics(
                                equity_curve, rebalance_records,
                                total_transaction_costs)
               IN results' = Returned(IF engine = "predictive"
                                      THEN WithDiagnostics(value, ic_history)
                                      ELSE value)
    /\ UNCHANGED <<panel, caller, rebalance_dates, i, current_capital, current_weights,
                   total_transaction_costs, equity_curve, rebalance_records,
                   ic_history, alpha_model, used, opt_calls, audit, skipped,
                   last_opt>>

Next == GenerateSchedule \/ RebalanceSkip \/ RebalanceRaise \/ Rebalance \/ Finalize

Spec == Init /\ [][Next]_vars

\* ------------------------------------------------ two runs of one engine
NumOracles == 4

\* A second call that starts from the weights the first call ended with.
RunAgain_KeepsWeights ==
    /\ pc = "done"
    /\ run_no = 1
    /\ first_run' = [curve |-> equity_curve, records |-> rebalance_records]
    /\ run_no' = 2
    /\ pc' = "init"
    /\ rebalance_dates' = <<>>
    /\ i' = 0
    /\ current_capital' = 0
    /\ total_transaction_costs' = 0
    /\ equity_curve' = <<>>
    /\ rebalance_records' = <<>>
    /\ used' = NoUse
    /\ opt_calls' = 0
    /\ audit' = <<>>
    /\ skipped' = {}
    /\ last_opt' = NoCall
    /\ results' = NoResult
    /\ UNCHANGED <<panel, oracle, endpoint, fetched, args, ret, ensemble, ic_history,
                   alpha_model, current_weights>>

\* run() is called again on the same engine object: lines 259-266 give the
\* call its own capital, weights, cost total, curve and records; self.ic_history
\* and self.alpha_model stay as the first call left them.
RunAgain ==
    /\ pc = "done"
    /\ run_no = 1
    /\ first_run' = [curve |-> equity_curve, records |-> rebalance_records]
    /\ run_no' = 2
    /\ pc' = "init"
    /\ rebalance_dates' = <<>>
    /\ i' = 0
    /\ current_capital' = 0
    /\ current_weights' = <<>>
    /\ total_transaction_costs' = 0
    /\ equity_curve' = <<>>
    /\ rebalance_records' = <<>>
    /\ used' = NoUse
    /\ opt_calls' = 0
    /\ audit' = <<>>
    /\ skipped' = {}
    /\ last_opt' = NoCall
    /\ results' = NoResult
    /\ UNCHANGED <<panel, oracle, endpoint, fetched, args, ret, ensemble, ic_history,
                   alpha_model>>

InitTwice ==
    /\ InitEngine
    /\ InitLocals
    /\ pc = "init"
    /\ oracle \in 1..NumOracles
    /\ run_no = 1
    /\ first_run = NoFirstRun
    /\ endpoint = ""
    /\ fetched = FALSE
    /\ args = NoArgs
    /\ ret = NoArgs
    /\ ensemble = NoEnsemble

NextTwice == Next \/ RunAgain

SpecTwice == InitTwice /\ [][NextTwice]_vars

\* ------------------------------------------------------ the HTTP endpoints
\* Minimum lookbacks the endpoints accept, on the scaled calendar (the code
\* has 12 months for the walk-forward endpoint, 6 and 24 for the predictive).
MinLookback == 5
MinAlphaLookback == 5
MinRiskLookback == 6

ModelTypes == {"ridge", "lasso", "elastic_net", "random_forest", "gradient_boosting"}

\* A request as it reaches a handler: the panel fetch_stock_data would return
\* and the parameters, valid or not.
InitEndpoint ==
    /\ \E e \in {"walkforward", "predictive"},
          lb \in {MinLookback - 1, MaxMonths - 2, MaxMonths - 1},
          f \in {"D", "W", "M", "Q"}, mt \in {"ridge", "svm"},
          fh \in 1..(MaxHorizon + 1), extra \in {0, 1}, late \in LateChoices :
        /\ f \in {"D", "W"} => lb # MaxMonths - 2
        /\ e = "walkforward" => mt = "ridge" /\ fh = 1 /\ extra = 0
        /\ endpoint = e
        /\ engine = IF e = "walkforward" THEN "base" ELSE "predictive"
        /\ dates = Calendar
        /\ list_from = [t \in Tickers |-> IF t = NumTickers THEN late ELSE 1]
        /\ prices = "moving"
        /\ config = [lookback_months |-> lb,
                     rebalance_freq |-> f,
                     max_weight |-> WUnit \div 2,
                     min_weight |-> 0,
                     transaction_cost_bps |-> CostBps,
                     initial_capital |-> InitialCapital,
                     use_predictive |-> e = "predictive",
                     forecast_horizon |-> fh,
                     use_ensemble |-> FALSE,
                     model_type |-> mt,
                     alpha_lookback_months |-> lb,
                     risk_lookback_months |-> lb + extra]
    /\ InitLocals
    /\ pc = "request"
    /\ oracle = 0
    /\ run_no = 1
    /\ first_run = NoFirstRun
    /\ fetched = FALSE
    /\ args = NoArgs
    /\ ret = NoArgs
    /\ ensemble = NoEnsemble

\* app.py optimize_walkforward, lines 161-189: the two parameter tests, then
\* fetch_stock_data, WalkForwardEngine(stock_data, config) and engine.run().
optimize_walkforward ==
    /\ pc = "request"
    /\ endpoint = "walkforward"
    /\ IF config.lookback_months < MinLookback
          \/ config.rebalance_freq \notin {"M", "Q", "W"}
       THEN /\ pc' = "rejected"
            /\ results' = Raised("400")
            /\ UNCHANGED fetched
       ELSE /\ pc' = "init"
            /\ fetched' = TRUE
            /\ UNCHANGED results
    /\ UNCHANGED <<panel, oracle, run_no, first_run, endpoint, args, ret, ensemble,
                   rebalance_dates, i,
                   current_capital, current_weights, total_transaction_costs,
                   equity_curve, rebalance_records, ic_history, alpha_model, used,
                   opt_calls, audit, skipped, last_opt>>

\* app.py optimize_predictive, lines 284-343: the tests of model type,
\* horizon and the two lookbacks (none of the frequency), then
\* fetch_stock_data, PredictiveWalkForwardEngine(...) and engine.run().
optimize_predictive ==
    /\ pc = "request"
    /\ endpoint = "predictive"
    /\ IF \/ config.model_type \notin ModelTypes
          \/ config.forecast_horizon < 1
          \/ config.forecast_horizon > MaxHorizon
          \/ config.alpha_lookback_months < MinAlphaLookback
          \/ config.risk_lookback_months < MinRiskLookback
       THEN /\ pc' = "rejected"
            /\ results' = Raised("400")
            /\ UNCHANGED fetched
       ELSE /\ pc' = "init"
            /\ fetched' = TRUE
            /\ UNCHANGED results
    /\ UNCHANGED <<panel, oracle, run_no, first_run, endpoint, args, ret, ensemble,
                   rebalance_dates, i,
                   current_capital, current_weights, total_transaction_costs,
                   equity_curve, rebalance_records, ic_history, alpha_model, used,
                   opt_calls, audit, skipped, last_opt>>

NextEndpoint == optimize_walkforward \/ optimize_predictive \/ Next

SpecEndpoint == InitEndpoint /\ [][NextEndpoint]_vars

\* ------------------------------------------- functions called on their own
\* An engine that is not running while one of its functions is called.
IdleEngine ==
    /\ engine = "predictive"
    /\ dates = Calendar
    /\ list_from = [t \in Tickers |-> 1]
    /\ prices = "moving"
    /\ config = [lookback_months |-> MaxMonths - 1,
                 rebalance_freq |-> "M",
                 max_weight |-> WUnit,
                 min_weight |-> 0,
                 transaction_cost_bps |-> CostBps,
                 initial_capital |-> InitialCapital,
                 use_predictive |-> TRUE,
                 forecast_horizon |-> 1,
                 use_ensemble |-> FALSE,
                 model_type |-> "ridge",
                 alpha_lookback_months |-> MaxMonths - 1,
                 risk_lookback_months |-> MaxMonths - 1]
    /\ InitLocals
    /\ pc = "call"
    /\ oracle = 0
    /\ run_no = 1
    /\ first_run = NoFirstRun
    /\ endpoint = ""
    /\ fetched = FALSE
    /\ ret = NoArgs

\* The locals of run() and what run() leaves on the engine.
run_state == <<rebalance_dates, i, current_capital, current_weights,
               total_transaction_costs, equity_curve, rebalance_records,
               ic_history, alpha_model, used, opt_calls, audit, skipped,
               last_opt, results>>

\* The call returns value: nothing of the engine is written.
Return(value) ==
    /\ pc' = "returned"
    /\ ret' = value
    /\ UNCHANGED <<panel, oracle, run_no, first_run, endpoint, fetched, args,
                   ensemble, run_state>>

\* Forecasts in units of 0.01.
MaxForecast == 1
ShiftEpsilon == 1            \* the 0.01 of the shift
ForecastValues == (0 - MaxForecast)..MaxForecast

\* forecast_dict: a forecast for some of the tickers.
ForecastDicts == UNION {[F -> ForecastValues] : F \in SUBSET Tickers}

\* mu = pd.Series({t: forecast_dict.get(t, 0.0) for t in valid_tickers})
ForecastOrZero(valid, forecast_dict) ==
    [t \in valid |-> IF t \in DOMAIN forecast_dict THEN forecast_dict[t] ELSE 0]

\* The shift without the 0.01: the smallest expected return lands on zero.
ShiftPositive_NoEpsilon(mu) ==
    LET min_return == Min({mu[t] : t \in DOMAIN mu})
    IN IF min_return < 0 THEN [t \in DOMAIN mu |-> mu[t] - min_return] ELSE mu

\* min_return = mu.min(); if min_return < 0: mu = mu - min_return + 0.01
ShiftPositive(mu) ==
    LET min_return == Min({mu[t] : t \in DOMAIN mu})
    IN IF min_return < 0
       THEN [t \in DOMAIN mu |-> mu[t] - min_return + ShiftEpsilon]
       ELSE mu

InitShift ==
    /\ IdleEngine
    /\ ensemble = NoEnsemble
    /\ \E valid \in {V \in SUBSET Tickers : Cardinality(V) >= NumTickers - 1},
          forecast_dict \in ForecastDicts :
        args = [fn |-> "optimize_with_forecasts", valid_tickers |-> valid,
                forecast_dict |-> forecast_dict]

\* The expected returns _optimize_with_forecasts hands to EfficientFrontier
\* when forecast_dict is not None, lines 376-387.
ExpectedReturns ==
    /\ pc = "call"
    /\ args.fn = "optimize_with_forecasts"
    /\ Return(ShiftPositive(ForecastOrZero(args.valid_tickers, args.forecast_dict)))

SpecShift == InitShift /\ [][ExpectedReturns]_vars

\* ------------------------------------------------------ cross-validation
NSplits == 3                 \* n_splits of train_with_cross_validation

\* The dates array of prepare_training_data: one entry per (date, ticker)
\* sample, the dates in the order of the training dates given.
RECURSIVE SampleDates(_, _)
SampleDates(counts, k) ==
    IF k > Len(counts) THEN <<>>
    ELSE [j \in 1..counts[k] |-> k] \o SampleDates(counts, k + 1)

Reverse(s) == [k \in 1..Len(s) |-> s[Len(s) + 1 - k]]

\* sklearn TimeSeriesSplit(n_splits).split over n samples: the folds as sets
\* of positions in the sorted sample sequence.
TimeSeriesSplit(n, n_splits) ==
    LET test_size == n \div (n_splits + 1)
        test_start(k) == n - n_splits * test_size + (k - 1) * test_size
    IN [k \in 1..n_splits |->
            [train |-> 1..test_start(k),
             test |-> (test_start(k) + 1)..(test_start(k) + test_size)]]

\* dates[np.argsort(dates)]
SortedDates(sample_dates) == SortSeq(sample_dates, LAMBDA a, b : a < b)

InitCrossValidation ==
    /\ IdleEngine
    /\ ensemble = NoEnsemble
    /\ \E n \in MinTrainDates..(MinTrainDates + 1), backwards \in BOOLEAN :
        \E counts \in [1..n -> (NumTickers - 1)..NumTickers] :
            args = [fn |-> "train_with_cross_validation",
                    dates |-> IF backwards THEN Reverse(SampleDates(counts, 1))
                              ELSE SampleDates(counts, 1)]

\* PredictiveAlphaModel.train_with_cross_validation, lines 223-233: the
\* samples sorted by date and the folds cut from them.
train_with_cross_validation ==
    /\ pc = "call"
    /\ args.fn = "train_with_cross_validation"
    /\ Return([sorted |-> SortedDates(args.dates),
               folds |-> TimeSeriesSplit(Len(args.dates), NSplits)])

SpecCrossValidation == InitCrossValidation /\ [][train_with_cross_validation]_vars

\* ------------------------------------------------------ training targets
\* Cells of the wide price frame price_df: a price, or 0 for NaN (the ticker
\* has no row on that date).
PriceCells == {0, 4, 5, 20}

\* Rows of the price frames tried: enough for the longest horizon and two more.
TargetRows == MaxHorizon * RowsPerMonth + 2

\* np.clip(forward_return, -0.5, 0.5), in units of 1/RetScale
Clip(x) ==
    IF x < 0 - (RetScale \div 2) THEN 0 - (RetScale \div 2)
    ELSE IF x > RetScale \div 2 THEN RetScale \div 2
    ELSE x

\* PredictiveAlphaModel._compute_forward_return: {} for None, else the
\* target; NaN when either price is NaN (np.clip of NaN is NaN, not None).
compute_forward_return(price_series, index, start, horizon) ==
    LET start_idx == IndexOf(index, start)
        end_idx == start_idx + horizon * RowsPerMonth
    IN IF start_idx = 0 \/ end_idx > Len(index) THEN {}
       ELSE IF price_series[start_idx] = 0 \/ price_series[end_idx] = 0
       THEN {[nan |-> TRUE, value |-> 0, rows |-> {start_idx, end_idx}]}
       ELSE {[nan |-> FALSE,
              value |-> Clip((price_series[end_idx] * RetScale)
                                \div price_series[start_idx] - RetScale),
              rows |-> {start_idx, end_idx}]}

\* PredictiveAlphaModel.prepare_training_data: the samples kept, with their
\* targets (y_list, date_list, ticker_list).
training_targets(features, index, price_df, train_dates, horizon) ==
    {[date |-> d, ticker |-> t, y |-> y] :
        <<d, t, y>> \in
            {x \in train_dates \X Tickers \X
                    UNION {compute_forward_return(price_df[c], index, d, horizon) :
                              c \in DOMAIN price_df, d \in train_dates} :
                /\ <<x[1], x[2]>> \in features
                /\ x[2] \in DOMAIN price_df
                /\ x[3] \in compute_forward_return(price_df[x[2]], index, x[1],
                                                   horizon)}}

\* The arguments: a price frame of one or two tickers, the second with every
\* price, and features at a date for the tickers that had a price by then
\* (resample('M').last() of calculate_features).
InitTargets ==
    /\ IdleEngine
    /\ ensemble = NoEnsemble
    /\ \E index \in {SortedSeq(1..TargetRows), SortedSeq((1..TargetRows) \ {2})},
          horizon \in 1..MaxHorizon,
          with_second \in BOOLEAN,
          featured \in {{1}, {1, 2}} :
        \E series \in [1..Len(index) -> PriceCells] :
            args = [fn |-> "prepare_training_data",
                    index |-> index,
                    price_df |-> IF with_second
                                 THEN [t \in {1, 2} |->
                                          IF t = 1 THEN series
                                          ELSE [k \in 1..Len(index) |-> 4]]
                                 ELSE [t \in {1} |-> series],
                    features |-> {x \in (1..TargetRows) \X featured :
                                    x[2] = 2 \/ \E k \in 1..Len(index) :
                                        index[k] <= x[1] /\ series[k] # 0},
                    rebalance_dates |-> 1..TargetRows,
                    horizon_months |-> horizon]

prepare_training_data_call ==
    /\ pc = "call"
    /\ args.fn = "prepare_training_data"
    /\ Return(training_targets(args.features, args.index, args.price_df,
                               args.rebalance_dates, args.horizon_months))

SpecTargets == InitTargets /\ [][prepare_training_data_call]_vars

\* ---------------------------------------------------- weighted ensemble
MaxModels == 3
MaxIC == 1
MaxEnsembleCalls == 4

\* A mean IC as np.corrcoef and np.mean give it: a number, or NaN when the
\* predictions of a fold are constant.
ICs == {[nan |-> TRUE, v |-> 0]} \cup {[nan |-> FALSE, v |-> x] : x \in (0 - 1)..MaxIC}

\* np.maximum(ic_array, 0): NaN stays NaN.
Maximum0(ics) ==
    [k \in DOMAIN ics |-> IF ics[k].nan \/ ics[k].v >= 0 THEN ics[k]
                          ELSE [nan |-> FALSE, v |-> 0]]

\* ic_array.sum(): NaN when an entry is NaN.
SumICs(ics) ==
    IF \E k \in DOMAIN ics : ics[k].nan THEN [nan |-> TRUE, v |-> 0]
    ELSE [nan |-> FALSE, v |-> SumOver([k \in DOMAIN ics |-> ics[k].v], DOMAIN ics)]

\* ic_array / ic_array.sum() if ic_array.sum() > 0 else np.ones(n) / n, as
\* numerators over one denominator; NaN > 0 is False.
WeightsFromICs(ics) ==
    LET ic_array == Maximum0(ics)
        total == SumICs(ic_array)
    IN IF ~total.nan /\ total.v > 0
       THEN [num |-> [k \in DOMAIN ics |-> ic_array[k].v], den |-> total.v]
       ELSE [num |-> [k \in DOMAIN ics |-> 1], den |-> Len(ics)]

\* self.weights = None
NoWeights == [num |-> <<>>, den |-> 0]

\* EnsembleAlphaModel.__init__: cv_ics are the children's mean ICs of the last
\* cross-validation (<<>> before the first), trained tells that train() ran.
InitEnsemble ==
    /\ IdleEngine
    /\ args = NoArgs
    /\ \E method \in {"mean", "weighted"}, n \in 2..MaxModels :
        ensemble = [ensemble_method |-> method, n_models |-> n,
                    weights |-> NoWeights, cv_ics |-> <<>>, trained |-> FALSE,
                    calls |-> 0]

\* EnsembleAlphaModel.train_with_cross_validation, lines 407-437
Ensemble_train_with_cross_validation ==
    /\ ensemble.ensemble_method # ""
    /\ pc = "call"
    /\ ensemble.calls < MaxEnsembleCalls
    /\ \E all_ics \in [1..ensemble.n_models -> ICs] :
        ensemble' = [ensemble EXCEPT
                        !.cv_ics = all_ics,
                        !.weights = IF ensemble.ensemble_method = "weighted"
                                    THEN WeightsFromICs(all_ics) ELSE @,
                        !.calls = @ + 1]
    /\ UNCHANGED <<panel, oracle, run_no, first_run, endpoint, fetched, args, ret,
                   pc, run_state>>

\* EnsembleAlphaModel.train, lines 439-469: the in-sample ICs set the weights
\* only when there are none.
Ensemble_train ==
    /\ ensemble.ensemble_method # ""
    /\ pc = "call"
    /\ ensemble.calls < MaxEnsembleCalls
    /\ \E ics \in [1..ensemble.n_models -> ICs] :
        ensemble' = [ensemble EXCEPT
                        !.trained = TRUE,
                        !.weights = IF ensemble.ensemble_method = "weighted"
                                       /\ ensemble.weights = NoWeights
                                    THEN WeightsFromICs(ics) ELSE @,
                        !.calls = @ + 1]
    /\ UNCHANGED <<panel, oracle, run_no, first_run, endpoint, fetched, args, ret,
                   pc, run_state>>

\* EnsembleAlphaModel.predict, lines 471-482, on trained children: the
\* weights the predictions are combined with (mean: the plain average).
Ensemble_predict ==
    /\ ensemble.ensemble_method # ""
    /\ ensemble.trained
    /\ pc = "call"
    /\ pc' = "returned"
    /\ ret' = IF ensemble.ensemble_method = "weighted" THEN ensemble.weights
              ELSE [num |-> [k \in 1..ensemble.n_models |-> 1],
                    den |-> ensemble.n_models]
    /\ UNCHANGED <<panel, oracle, run_no, first_run, endpoint, fetched, args,
                   ensemble, run_state>>

NextEnsemble ==
    Ensemble_train_with_cross_validation \/ Ensemble_train \/ Ensemble_predict

SpecEnsemble == InitEnsemble /\ [][NextEnsemble]_vars

\* =============================================================== claims
\* C1: causality. Every row handed to feature computation, label
\* construction, covariance estimation and optimisation for rebalance date d
\* is dated strictly before d.
C1_Causality ==
    \A d \in used.features \cup used.labels \cup used.cov \cup used.opt :
        d < used.date

C1_Witness ==
    /\ engine = "predictive"
    /\ used.features # {} /\ used.labels # {} /\ used.cov # {}
    /\ used.date - 1 \in used.features

\* C2: skip-and-hold. A skipped rebalance leaves weights, capital, costs,
\* equity curve and records as they were, and every record's turnover is
\* measured against the weights of the previous successful rebalance.
C2_TurnoverAgainstLastSuccess ==
    \A k \in 1..Len(rebalance_records) :
        rebalance_records[k].turnover =
            Turnover(IF k = 1 THEN <<>> ELSE rebalance_records[k - 1].weights,
                     rebalance_records[k].weights)

C2_SkipAndHold ==
    /\ []C2_TurnoverAgainstLastSuccess
    /\ [][skipped' # skipped =>
            UNCHANGED <<current_weights, current_capital, total_transaction_costs,
                        equity_curve, rebalance_records>>]_vars

C2_Witness ==
    \E k \in 2..Len(rebalance_records) :
        /\ audit[k].index > audit[k - 1].index + 1
        /\ rebalance_records[k].turnover > 0
        /\ rebalance_records[k].weights # rebalance_records[k - 1].weights

\* C3: a failure at a single rebalance date never aborts run(); run() fails
\* only after every scheduled date was processed without one success.
C3_SingleFailureNeverAborts ==
    pc = "fatal" =>
        /\ Len(rebalance_dates) = 0 \/ i > Len(rebalance_dates)
        /\ Len(rebalance_records) = 0

\* C4: every skipped rebalance date has an entry in the rebalance history
\* that run() returns.
C4_SkippedDatesRecorded ==
    results.status = "returned" =>
        \A k \in skipped :
            \E j \in 1..Len(rebalance_records) :
                rebalance_records[j].date = rebalance_dates[k]

\* C5: the schedule is strictly increasing, and every entry is the earliest
\* trading date on or after a calendar target of the frequency.
C5_ScheduleStrictlyIncreasing ==
    /\ \A k \in 1..(Len(rebalance_dates) - 1) :
            rebalance_dates[k] < rebalance_dates[k + 1]
    /\ \A k \in 1..Len(rebalance_dates) :
            /\ rebalance_dates[k] \in dates
            /\ \E target \in Calendar :
                /\ target % FreqDays(config.rebalance_freq) = 0
                /\ target <= rebalance_dates[k]
                /\ \A d \in dates : d >= target => d >= rebalance_dates[k]

\* C6: no rebalance is scheduled before start_date + lookback_months.
C6_FullLookbackBeforeEveryDate ==
    \A k \in 1..Len(rebalance_dates) :
        rebalance_dates[k] >= Min(dates) + config.lookback_months * MonthDays

C6_Witness ==
    /\ Len(rebalance_dates) >= 2
    /\ rebalance_dates[1] = Min(dates) + config.lookback_months * MonthDays

\* C7: turnover is the sum of |new - old| over the union of the holdings, the
\* cost is turnover x carried capital x cost_bps / 10000, and the first equity
\* value of the holding period is the carried capital minus the cost.
C7_CostBeforeCompounding ==
    \A k \in 1..Len(rebalance_records) :
        LET r == rebalance_records[k]
            a == audit[k]
            held == DOMAIN a.old_weights \cup DOMAIN r.weights
            delta == [t \in held |->
                        Abs((IF t \in DOMAIN r.weights THEN r.weights[t] ELSE 0)
                            - (IF t \in DOMAIN a.old_weights THEN a.old_weights[t] ELSE 0))]
        IN /\ r.turnover = SumOver(delta, held)
           /\ r.transaction_cost =
                (r.turnover * a.capital_in * config.transaction_cost_bps)
                    \div (WUnit * BpsDenominator)
           /\ a.curve_to >= a.curve_from =>
                equity_curve[a.curve_from].value = a.capital_in - r.transaction_cost

C7_Witness ==
    \E k \in 2..Len(rebalance_records) :
        /\ rebalance_records[k].transaction_cost > 0
        /\ DOMAIN audit[k].old_weights # DOMAIN rebalance_records[k].weights
        /\ audit[k].curve_to > audit[k].curve_from
        /\ equity_curve[audit[k].curve_from].value < audit[k].capital_in

\* C8: every record has 0 <= turnover <= 2, the reported average turnover
\* lies in [0, 2], and turnover is the same with old and new weights swapped.
C8_TurnoverBoundedSymmetric ==
    /\ \A k \in 1..Len(rebalance_records) :
        /\ rebalance_records[k].turnover >= 0
        /\ rebalance_records[k].turnover <= 2 * WUnit
        /\ rebalance_records[k].turnover =
                Turnover(rebalance_records[k].weights, audit[k].old_weights)
    /\ results.status = "returned" =>
        /\ results.value.avg_turnover >= 0
        /\ results.value.avg_turnover <= 2 * WUnit

C8_Witness ==
    /\ results.status = "returned"
    /\ results.value.avg_turnover > WUnit
    /\ \E k \in 1..Len(rebalance_records) : rebalance_records[k].turnover = 2 * WUnit

\* C9: every stored weight vector respects min_weight <= w <= max_weight and
\* sums to 1, also after the entries below the 0.1% cutoff were removed.
C9_WeightsBoundedFullyInvested ==
    \A k \in 1..Len(rebalance_records) :
        LET w == rebalance_records[k].weights
        IN /\ \A t \in DOMAIN w : config.min_weight <= w[t] /\ w[t] <= config.max_weight
           /\ SumWeights(w) = WUnit

\* C10: an empty schedule makes run() raise before any optimisation, with no
\* equity curve, record or result.
C10_EmptyScheduleIsFatal ==
    (pc # "init" /\ Len(rebalance_dates) = 0) =>
        /\ pc = "fatal"
        /\ results.status = "raised"
        /\ opt_calls = 0
        /\ equity_curve = <<>>
        /\ rebalance_records = <<>>

C10_Witness ==
    /\ pc = "fatal"
    /\ Len(rebalance_dates) = 0
    /\ results = Raised("no_rebalance_dates")
    /\ Min(dates) + config.lookback_months * MonthDays <= Max(dates)

\* C11: a predictive rebalance with fewer than 6 training dates or fewer than
\* 30 training samples trains no model and appends no IC entry, and is not
\* skipped for that reason: the optimiser is run on the historical means of the
\* risk window, and an allocation it returns is flagged not forecast-based.
C11_FallbackToHistoricalMeans ==
    (/\ last_opt.ml.why # "off"
     /\ last_opt.ml.n_dates < 6 \/ last_opt.ml.n_samples < 30) =>
        /\ ~last_opt.ml.fitted
        /\ last_opt.ic_added = 0
        /\ \A k \in 1..Len(ic_history) : ic_history[k].date # last_opt.date
        /\ ~last_opt.forecast_based
        /\ last_opt.kind \in {"ok", "none"}
        /\ last_opt.kind = "none" =>
                last_opt.cause \in {"insufficient_universe", "solver_failed"}
        /\ last_opt.kind = "ok" =>
                /\ Len(rebalance_records) > 0
                /\ rebalance_records[Len(rebalance_records)].date = last_opt.date
                /\ ~rebalance_records[Len(rebalance_records)].forecast_based
                /\ used.opt = predictive_lookback_data(last_opt.date,
                                                       config.risk_lookback_months)

C11_Witness ==
    /\ last_opt.ml.why = "few_samples"
    /\ last_opt.ml.n_dates >= 6
    /\ last_opt.kind = "ok"
    /\ ~rebalance_records[Len(rebalance_records)].forecast_based
    /\ \E k \in 1..Len(rebalance_records) : rebalance_records[k].forecast_based

\* C12: in the predictive optimiser a ticker is eligible only with prices on
\* at least 70% of the rows of the risk window; no other ticker receives a
\* weight, and with fewer than 5 eligible tickers the optimisation yields no
\* weights and the rebalance is skipped.
C12_SeventyPercentCoverage ==
    (engine = "predictive" /\ used.opt # {}) =>
        LET risk == used.opt
            eligible == {t \in Tickers :
                            /\ \E d \in risk : HasRow(d, t)
                            /\ 10 * Cardinality({d \in risk : HasRow(d, t)})
                                    >= 7 * Cardinality(risk)}
        IN /\ last_opt.kind = "ok" =>
                DOMAIN rebalance_records[Len(rebalance_records)].weights \subseteq eligible
           /\ Cardinality(eligible) < 5 =>
                /\ last_opt.kind = "none"
                /\ (i - 1) \in skipped

\* C13: the result of a predictive run carries a forward-looking
\* recommendation, an entry beside the metrics of the base run and the
\* diagnostics, dated at the last date of the panel and with weights inside
\* the bounds.
C13_ForwardRecommendation ==
    (engine = "predictive" /\ results.status = "returned") =>
        \E k \in DOMAIN results.value \ (DOMAIN empty_metrics \cup {"predictive_diagnostics"}) :
            /\ results.value[k].recommendation_date = Max(dates)
            /\ \A t \in DOMAIN results.value[k].weights :
                    /\ config.min_weight <= results.value[k].weights[t]
                    /\ results.value[k].weights[t] <= config.max_weight

\* C14: determinism. A second run() on the same panel and configuration, the
\* libraries returning the same results for the same inputs, ends with the
\* equity curve and the rebalance history of the first.
C14_Determinism ==
    run_no = 2 =>
        /\ pc # "fatal"
        /\ pc = "done" =>
                /\ equity_curve = first_run.curve
                /\ rebalance_records = first_run.records

C14_Witness ==
    /\ run_no = 2
    /\ pc = "done"
    /\ Len(rebalance_records) >= 2
    /\ rebalance_records[2].transaction_cost > 0
    /\ Len(ic_history) >= 2
    /\ Len(first_run.curve) >= 2

C16_SingleAssetFullWeight ==
    (/\ engine = "predictive"
     /\ used.opt # {}
     /\ Cardinality({t \in Tickers : \E d \in used.opt : HasRow(d, t)}) = 1
     /\ config.max_weight >= WUnit) =>
        /\ last_opt.kind = "ok"
        /\ last_opt.weights =
                [t \in {x \in Tickers : \E d \in used.opt : HasRow(d, x)} |-> WUnit]

\* C17: the number of rebalances run() reports is the number of scheduled
\* dates, which is the number of frequency targets from start_date +
\* lookback_months to the end of the panel, and the rebalance history has one
\* record per scheduled date, in schedule order.
C17_OneRecordPerScheduledDate ==
    results.status = "returned" =>
        /\ Len(rebalance_dates) =
                Cardinality({d \in Calendar :
                                /\ d >= Min(dates) + config.lookback_months * MonthDays
                                /\ d <= Max(dates)
                                /\ d % FreqDays(config.rebalance_freq) = 0})
        /\ results.value.n_rebalances = Len(rebalance_dates)
        /\ Len(results.value.rebalance_history) = Len(rebalance_dates)
        /\ \A k \in 1..Len(results.value.rebalance_history) :
                results.value.rebalance_history[k].date = rebalance_dates[k]

\* C18: both endpoints reject an invalid configuration before any price data
\* is fetched and before any rebalance is processed: a lookback below its
\* minimum, an unknown model type, a rebalance frequency outside {M, Q, W}.
C18_InvalidConfigRejectedFirst ==
    LET short == IF endpoint = "walkforward"
                 THEN config.lookback_months < MinLookback
                 ELSE \/ config.alpha_lookback_months < MinAlphaLookback
                      \/ config.risk_lookback_months < MinRiskLookback
        unknown == endpoint = "predictive" /\ config.model_type \notin ModelTypes
        unsupported == config.rebalance_freq \notin {"M", "Q", "W"}
    IN (endpoint # "" /\ (short \/ unknown \/ unsupported)) =>
            /\ ~fetched
            /\ pc \in {"request", "rejected"}
            /\ opt_calls = 0
            /\ rebalance_records = <<>>

\* C19: the result a predictive run returns has an entry 'metrics' holding
\* total_return, annualized_return, volatility, sharpe_ratio, max_drawdown
\* and num_rebalances.
C19_MetricsEntry ==
    (engine = "predictive" /\ pc = "done" /\ results.status = "returned") =>
        /\ "metrics" \in DOMAIN results.value
        /\ {"total_return", "annualized_return", "volatility", "sharpe_ratio",
            "max_drawdown", "num_rebalances"} \subseteq DOMAIN results.value.metrics

\* C20: in a predictive run the IC history holds exactly one entry for each
\* scheduled rebalance date at which the model was cross-validated, in
\* increasing date order, and no entry for any other date.
C20_ICHistoryPerDate ==
    LET cross_validated == last_opt.ml.why \in {"train_raised", "predicted",
                                                "predict_failed"}
        entries(d) == {k \in 1..Len(ic_history) : ic_history[k].date = d}
        seen_before == \E j \in 1..(opt_calls - 1) :
                          rebalance_dates[j] = last_opt.date
    IN (engine = "predictive" /\ run_no = 1) =>
        /\ \A k \in 1..Len(ic_history) :
              \E j \in 1..opt_calls : rebalance_dates[j] = ic_history[k].date
        /\ \A k \in 1..(Len(ic_history) - 1) :
              ic_history[k].date < ic_history[k + 1].date
        /\ (last_opt # NoCall /\ cross_validated) =>
              Cardinality(entries(last_opt.date)) = 1
        /\ (last_opt # NoCall /\ ~cross_validated /\ ~seen_before) =>
              entries(last_opt.date) = {}

\* C21: capital chaining. For each successful rebalance the equity values of
\* its holding period compound the daily portfolio return, the weights
\* renormalised over the held tickers with prices in the period, on the
\* capital carried in less the cost; the capital carried out is the last
\* equity value of the period (the capital less the cost when the period has
\* none); the reported final_value is the last point of the equity curve.
C21_CapitalChaining ==
    (pc = "done" /\ results.status = "returned") =>
        /\ \A k \in 1..Len(rebalance_records) :
              LET rec == rebalance_records[k]
                  a == audit[k]
                  capital == a.capital_in - rec.transaction_cost
                  to == IF a.index < Len(rebalance_dates)
                        THEN rebalance_dates[a.index + 1] ELSE end_date
                  rows == PeriodDates(rec.date, to)
                  held == {t \in DOMAIN rec.weights :
                              \E d \in Range(rows) : HasRow(d, t)}
                  total == SumOver(rec.weights, held)
                  daily(n) == SumOver([t \in held |->
                                        rec.weights[t] * PctChange(rows, n, t)],
                                    held) \div total
                  before(j) == IF j = a.curve_from THEN capital
                               ELSE equity_curve[j - 1].value
              IN /\ \A j \in a.curve_from..a.curve_to :
                       /\ equity_curve[j].date = rows[j - a.curve_from + 1]
                       /\ equity_curve[j].value =
                            (before(j) * (RetScale + daily(j - a.curve_from + 1)))
                                \div RetScale
                 /\ held # {} => a.curve_to - a.curve_from + 1 = Len(rows)
                 /\ rec.portfolio_value = IF a.curve_to >= a.curve_from
                                          THEN equity_curve[a.curve_to].value
                                          ELSE capital
        /\ results.value.final_value = equity_curve[Len(equity_curve)].value

\* C22: positivity shift. An eligible ticker without a forecast gets expected
\* return 0; when the minimum is negative every expected return is raised by
\* |min| + 0.01, so all are at least 0.01 and the order of any two tickers is
\* as before; when the minimum is not negative nothing is changed.
C22_PositivityShift ==
    (pc = "returned" /\ args.fn = "optimize_with_forecasts") =>
        LET given == args.forecast_dict
            raw == [t \in args.valid_tickers |->
                        IF t \in DOMAIN given THEN given[t] ELSE 0]
            lowest == CHOOSE t \in args.valid_tickers :
                          \A x \in args.valid_tickers : raw[t] <= raw[x]
        IN /\ DOMAIN ret = args.valid_tickers
           /\ IF raw[lowest] < 0
              THEN \A a \in DOMAIN ret :
                      /\ ret[a] = raw[a] + Abs(raw[lowest]) + ShiftEpsilon
                      /\ ret[a] >= ShiftEpsilon
                      /\ \A b \in DOMAIN ret : (raw[a] < raw[b]) <=> (ret[a] < ret[b])
              ELSE \A a \in DOMAIN ret : ret[a] = raw[a]

\* A shifted call: one eligible ticker has no forecast, the lowest forecast is
\* negative and two forecasts differ.
C22_Witness ==
    /\ pc = "returned"
    /\ args.fn = "optimize_with_forecasts"
    /\ args.valid_tickers \ DOMAIN args.forecast_dict # {}
    /\ \E a, b \in args.valid_tickers \cap DOMAIN args.forecast_dict :
          /\ args.forecast_dict[a] < 0
          /\ args.forecast_dict[b] > 0
          /\ ret[a] = ShiftEpsilon
          /\ ret[b] > ret[a]

\* C23: in every fold of train_with_cross_validation the training samples
\* are a contiguous block at the start of the date-sorted samples and every
\* test sample is dated strictly later than every training sample.
C23_TestStrictlyAfterTrain ==
    (pc = "returned" /\ args.fn = "train_with_cross_validation") =>
        \A k \in DOMAIN ret.folds :
            LET fold == ret.folds[k]
            IN /\ \E n \in 1..Len(ret.sorted) : fold.train = 1..n
               /\ \A a \in fold.train, b \in fold.test :
                      ret.sorted[a] < ret.sorted[b]

\* C24: every training target of prepare_training_data is the ratio of two
\* prices inside the price history, at the candidate date and horizon_months
\* x 21 rows later; a sample whose later row is past the end of the history
\* or whose date is no row of it is dropped; every target kept lies in
\* [-0.5, 0.5].
C24_TargetsInsideHistory ==
    (pc = "returned" /\ args.fn = "prepare_training_data") =>
        /\ \A smp \in ret :
              LET at == IndexOf(args.index, smp.date)
                  later == at + args.horizon_months * RowsPerMonth
                  series == args.price_df[smp.ticker]
              IN /\ at \in 1..Len(args.index)
                 /\ later \in 1..Len(args.index)
                 /\ series[at] # 0
                 /\ series[later] # 0
                 /\ ~smp.y.nan
                 /\ smp.y.value = Clip((series[later] * RetScale) \div series[at]
                                          - RetScale)
                 /\ smp.y.value >= 0 - (RetScale \div 2)
                 /\ smp.y.value <= RetScale \div 2
        /\ \A d \in args.rebalance_dates, t \in DOMAIN args.price_df :
              (\/ IndexOf(args.index, d) = 0
               \/ IndexOf(args.index, d) + args.horizon_months * RowsPerMonth
                      > Len(args.index))
                  => ~\E smp \in ret : smp.date = d /\ smp.ticker = t

\* C25: in a weighted ensemble that was cross-validated, the weights predict
\* uses come from the children's cross-validated ICs: each IC clipped below
\* at zero and divided by their sum, non-negative and summing to one, equal
\* weights 1/n when no IC is positive; a later train() leaves them alone.
C25_WeightsFromCrossValidatedIC ==
    LET ics == ensemble.cv_ics
        n == ensemble.n_models
        positive == {k \in 1..n : ~ics[k].nan /\ ics[k].v > 0}
        clipped == [k \in 1..n |-> IF k \in positive THEN ics[k].v ELSE 0]
        total == SumOver(clipped, 1..n)
        w == ensemble.weights
    IN (ensemble.ensemble_method = "weighted" /\ ensemble.cv_ics # <<>>) =>
        /\ pc = "returned" => ret = w
        /\ DOMAIN w.num = 1..n
        /\ w.den > 0
        /\ \A k \in 1..n : w.num[k] >= 0
        /\ SumOver(w.num, 1..n) = w.den
        /\ IF positive = {}
           THEN \A k \in 1..n : w.num[k] * n = w.den
           ELSE \A k \in 1..n : w.num[k] * total = clipped[k] * w.den

\* C26: the equity curve run() returns covers every trading date of the panel
\* from the first successful rebalance date to the panel's end date, the
\* periods after a skipped rebalance included.
C26_CurveCoversEveryDate ==
    (pc = "done" /\ results.status = "returned" /\ Len(rebalance_records) > 0) =>
        LET covered == Range(results.value.time_series.dates)
        IN \A d \in dates :
              (d >= rebalance_records[1].date /\ d <= end_date) => d \in covered

\* C27: the equity curve run() returns is ordered by date and holds each date
\* at most once: a rebalance date that ends one holding period and starts the
\* next gives a single point.
C27_CurveDatesUnique ==
    (pc = "done" /\ results.status = "returned") =>
        LET curve_dates == results.value.time_series.dates
        IN \A k \in 1..(Len(curve_dates) - 1) : curve_dates[k] < curve_dates[k + 1]

\* C28: a returned result is consistent with the rebalances performed:
\* n_rebalances is the number of rebalance records, rebalance_history holds
\* them, total_transaction_costs is the sum of their costs and final_value is
\* the last record's portfolio_value, also when the curve has a single point.
C28_ResultConsistentWithRecords ==
    (pc = "done" /\ results.status = "returned") =>
        LET n == Len(rebalance_records)
        IN /\ results.value.n_rebalances = n
           /\ Len(results.value.rebalance_history) = n
           /\ results.value.total_transaction_costs =
                SumOver([k \in 1..n |-> rebalance_records[k].transaction_cost], 1..n)
           /\ n > 0 => results.value.final_value = rebalance_records[n].portfolio_value

\* C29: in the predictive simulator the training targets are forward returns
\* over the configured forecast_horizon (forecast_horizon x 21 rows), with a
\* single model and with the ensemble alike.
C29_TargetsUseConfiguredHorizon ==
    (engine = "predictive" /\ last_opt # NoCall
        /\ last_opt.ml.why \notin {"off", "few_dates"}) =>
        LET alpha == used.features
            rows == SortedSeq(alpha)
            h == config.forecast_horizon * RowsPerMonth
            starts == {d \in train_rebalance_dates(alpha, used.date) :
                          /\ d \in FeatureDates(alpha)
                          /\ FeatureTickers(alpha, d) \cap Columns(alpha) # {}
                          /\ IndexOf(rows, d) # 0
                          /\ IndexOf(rows, d) + h <= Len(rows)}
        IN used.labels = UNION {{d, rows[IndexOf(rows, d) + h]} : d \in starts}

\* C30: every optimisation that trains does so on a new model instance, and
\* the IC history of a run holds only entries that run produced, also in a
\* second run() on the same engine: at most one entry per optimize_at_date
\* call the run has made, each dated at a date the run has visited.
C30_HistoryOfThisRunOnly ==
    engine = "predictive" =>
        /\ (last_opt # NoCall /\ last_opt.ml.why # "off") => alpha_model > 0
        /\ Len(ic_history) <= opt_calls
        /\ \A k \in 1..Len(ic_history) :
              \E j \in 1..opt_calls : rebalance_dates[j] = ic_history[k].date

====
